---- MODULE Spec2Model ----
(***************************************************************************)
(* A model of MPM3D (src/src/simulation3d/mpm/mpm3.cpp): the substep state *)
(* machine, the particle passes run by a pool of worker threads, the        *)
(* per-cell locks of the grid, the cubic B-spline kernel and the grid       *)
(* boundary conditions.                                                     *)
(*                                                                          *)
(* Numbers.  The code computes in float; the model computes in fixed point  *)
(* with exact integer addition:                                             *)
(*   - a position or distance is a number of 1/PS cells;                    *)
(*   - a kernel value w(x) or dw(x) is a number of 1/WS (48 is the common   *)
(*     denominator of the two polynomials on the 1/2-cell lattice), so a    *)
(*     3D weight is a number of 1/WS^3;                                     *)
(*   - a particle mass is a number of unit masses, a cell mass a number of  *)
(*     1/WS^3 unit masses;                                                  *)
(*   - a velocity is a number of 1/VS cells per time unit; during the       *)
(*     accumulation of rasterize a cell holds momentum, in 1/(WS^3*VS);     *)
(*   - a division rounds toward zero (Quot).                                *)
(* The linear algebra of the material models (svd, polar_decomp, det,       *)
(* inverse) is outside this file: what the model keeps of it is which       *)
(* outcome it had (normal or not, positive or not, consistent or not) and   *)
(* a tmp_force that stands for the stress of the material.                  *)
(***************************************************************************)
EXTENDS Integers, Sequences, FiniteSets, TLC

\* ------------------------------------------------------------- bounds
MaxParticles == 2
NumThreads == 2
MaxSubsteps == 2
ResX == 3

\* ------------------------------------------------------- fixed point
PS == 2
WS == 48
VS == 60
W3 == WS * WS * WS

Abs(x) == IF x < 0 THEN -x ELSE x
Max(a, b) == IF a > b THEN a ELSE b
Min(a, b) == IF a < b THEN a ELSE b
Sgn(x) == IF x < 0 THEN -1 ELSE 1

\* Division rounding toward zero; the callers guard b # 0.
Quot(a, b) == Sgn(a) * Sgn(b) * (Abs(a) \div Abs(b))

clamp(x, lo, hi) == IF x < lo THEN lo ELSE IF x > hi THEN hi ELSE x

\* ------------------------------------------------ vectors and matrices
Zero3 == <<0, 0, 0>>
VAdd(a, b) == <<a[1] + b[1], a[2] + b[2], a[3] + b[3]>>
VSub(a, b) == <<a[1] - b[1], a[2] - b[2], a[3] - b[3]>>
VScale(s, a) == <<s * a[1], s * a[2], s * a[3]>>
VQuot(a, s) == <<Quot(a[1], s), Quot(a[2], s), Quot(a[3], s)>>
Dot(a, b) == a[1] * b[1] + a[2] * b[2] + a[3] * b[3]

\* A matrix is its three rows.
ZeroM == <<Zero3, Zero3, Zero3>>
MatVec(m, a) == <<Dot(m[1], a), Dot(m[2], a), Dot(m[3], a)>>
MAdd(m, n) == <<VAdd(m[1], n[1]), VAdd(m[2], n[2]), VAdd(m[3], n[3])>>
MQuot(m, s) == <<VQuot(m[1], s), VQuot(m[2], s), VQuot(m[3], s)>>
\* The matrix a b^T (entry i,j is a[i]*b[j]).
Outer(a, b) == <<VScale(a[1], b), VScale(a[2], b), VScale(a[3], b)>>
ScalarM(s) == <<(<<s, 0, 0>>), (<<0, s, 0>>), (<<0, 0, s>>)>>

\* ------------------------------------------------------------ kernel
\* assert(x <= 2) of w and dw: the argument, in 1/PS cells.
KernelArgOk(x) == Abs(x) <= 2 * PS

\* w with 0.5 for its constant 2/3
wLowPeak(x) ==
    LET a == Abs(x) IN
    IF a < PS
    THEN (24 * a * a * a) \div (PS * PS * PS) - (48 * a * a) \div (PS * PS) + 24
    ELSE Quot(-8 * a * a * a, PS * PS * PS) + (48 * a * a) \div (PS * PS)
         - (96 * a) \div PS + 64

\* w(x) * WS, x in 1/PS cells.  Outside |x| <= 2 it is the value the second
\* polynomial has there (what a build without assertions computes).
w(x) ==
    LET a == Abs(x) IN
    IF a < PS
    THEN (24 * a * a * a) \div (PS * PS * PS) - (48 * a * a) \div (PS * PS) + 32
    ELSE Quot(-8 * a * a * a, PS * PS * PS) + (48 * a * a) \div (PS * PS)
         - (96 * a) \div PS + 64

\* dw(x) * WS, x in 1/PS cells.
dw(x) ==
    LET s == IF x < 0 THEN -1 ELSE 1
        a == x * s
        val == IF a < PS
               THEN (72 * a * a) \div (PS * PS) - (96 * a) \div PS
               ELSE Quot(-24 * a * a, PS * PS) + (96 * a) \div PS - 96
    IN  s * val

\* w(Vector3) * WS^3
w3(a) == w(a[1]) * w(a[2]) * w(a[3])

\* dw(Vector3) * WS^3
dw3(a) == <<dw(a[1]) * w(a[2]) * w(a[3]),
            w(a[1]) * dw(a[2]) * w(a[3]),
            w(a[1]) * w(a[2]) * dw(a[3])>>

KernelVecOk(a) == KernelArgOk(a[1]) /\ KernelArgOk(a[2]) /\ KernelArgOk(a[3])

\* -------------------------------------------------------------- grid
Cells(r) == (0 .. r[1] - 1) \X (0 .. r[2] - 1) \X (0 .. r[3] - 1)

\* (int) of a coordinate given in 1/PS cells: truncation toward zero.
ToInt(x) == Quot(x, PS)

\* Position of a grid node, in 1/PS cells (the grids have storage offset 0).
NodePos(ind) == VScale(PS, ind)

\* get_bounded_rasterization_region: the nodes int(p)-1 .. int(p)+2 of each
\* axis that lie in the grid, as the sequence the loop visits.
RegionLo(x, n) == Max(0, Min(n, ToInt(x) - 1))
RegionHi(x, n) == Max(0, Min(n, ToInt(x) + 3))
get_bounded_rasterization_region(pos, r) ==
    LET lo == [a \in 1 .. 3 |-> RegionLo(pos[a], r[a])]
        nn == [a \in 1 .. 3 |-> Max(0, RegionHi(pos[a], r[a]) - lo[a])]
    IN  [m \in 1 .. (nn[1] * nn[2] * nn[3]) |->
            <<lo[1] + ((m - 1) \div (nn[2] * nn[3])),
              lo[2] + (((m - 1) \div nn[3]) % nn[2]),
              lo[3] + ((m - 1) % nn[3])>>]

\* --------------------------------------------------------- level set
\* The boundary is a moving plane: phi(x, t) = n.x - off + td*t, in 1/PS
\* cells, with gradient n and temporal derivative td (1/PS cells per time
\* unit); friction is in halves, negative for a sticky boundary.
LSSample(ls, pos, t) == Dot(ls.n, pos) - ls.off + ls.td * t
LSGradient(ls, pos, t) == ls.n
\* the temporal derivative as a velocity, in 1/VS cells per time unit
LSTemporal(ls, pos, t) == ls.td * (VS \div PS)

\* -------------------------------------------------------------- state
VARIABLES
    res,                  \* grid resolution
    gravity,              \* external acceleration
    delta_t,              \* the step the harness passes to substep
    apic,                 \* APIC transfer on or off
    num_threads,          \* size of the worker pool
    levelset,             \* the boundary
    particles,            \* sequence of particles
    grid_mass, grid_velocity, grid_velocity_backup, grid_locks,
    current_t,            \* simulation clock
    pc,                   \* where the thread calling substep is
    todo,                 \* particles of the running pass not yet handed out
    workers,              \* what each worker thread is doing
    calls,                \* substep calls made so far
    max_calls,            \* substep calls the harness makes
    fatal,                \* the fatal condition that has occurred, or "none"
    aborted,              \* the process has been aborted
    ndebug                \* an assert has been passed unchecked

config == <<res, gravity, delta_t, apic, num_threads, levelset>>
grid == <<grid_mass, grid_velocity, grid_velocity_backup, grid_locks>>
control == <<pc, todo, workers, calls, max_calls>>
failure == <<fatal, aborted, ndebug>>
vars == <<config, particles, grid, current_t, control, failure>>

Idle == [st |-> "idle", p |-> 0, k |-> 0, weight |-> 0, mass |-> 0,
         force |-> Zero3, rm |-> 0, rv |-> Zero3]

\* MPM3D::Particle as add_particles leaves it.
NewParticle(kind, pos, v0) ==
    [kind |-> kind, pos |-> pos, v |-> v0, mass |-> 1,
     apic_b |-> ZeroM, tmp_force |-> ZeroM]

\* The passes that parallel_for_each_particle runs.
ParallelPhases == {"rasterize", "calculate_force", "accumulate_force",
                   "resample", "advect", "collision"}

\* parallel_for_each_particle has handed out every particle and every worker
\* has finished its particle: the call returns.
PassDone == todo = {} /\ \A th \in DOMAIN workers : workers[th].st = "idle"

Running == ~aborted

\* initialize: the grids of the configured resolution, zeroed, locks free.
InitGrid ==
    /\ grid_mass = [c \in Cells(res) |-> 0]
    /\ grid_velocity = [c \in Cells(res) |-> Zero3]
    /\ grid_velocity_backup = [c \in Cells(res) |-> Zero3]
    /\ grid_locks = [c \in Cells(res) |-> 0]

InitControl(n) ==
    /\ max_calls = n
    /\ current_t = 0
    /\ pc = "idle"
    /\ todo = {}
    /\ workers = [th \in 1 .. num_threads |-> Idle]
    /\ calls = 0
    /\ fatal = "none"
    /\ aborted = FALSE
    /\ ndebug = FALSE

\* ------------------------------------------------ parallel_for_each_particle
FirstStage ==
    [ph \in ParallelPhases |->
        CASE ph = "rasterize" -> "r_lock"
          [] ph = "calculate_force" -> "calc"
          [] ph = "accumulate_force" -> "f_mass"
          [] ph = "resample" -> "resample"
          [] ph = "advect" -> "advect"
          [] ph = "collision" -> "collide"]

\* An idle worker takes a particle of the running pass, in any order.
Take(th) ==
    /\ Running
    /\ pc \in ParallelPhases
    /\ workers[th].st = "idle"
    /\ \E i \in todo :
        /\ todo' = todo \ {i}
        /\ workers' = [workers EXCEPT ![th] =
                          [Idle EXCEPT !.st = FirstStage[pc], !.p = i, !.k = 1]]
    /\ UNCHANGED <<config, particles, grid, current_t, pc, calls, max_calls, failure>>

\* resample and the advection pass exchanged
PhaseAfterSwapped(ph) ==
    CASE ph = "idle" -> "rasterize"
      [] ph = "rasterize" -> "backup"
      [] ph = "backup" -> "external_force"
      [] ph = "external_force" -> "calculate_force"
      [] ph = "calculate_force" -> "accumulate_force"
      [] ph = "accumulate_force" -> "advect"
      [] ph = "advect" -> "resample"
      [] ph = "resample" -> "collision"
      [] ph = "collision" -> "idle"

\* Lines 388-401: what substep runs after each phase.
PhaseAfter(ph) ==
    CASE ph = "idle" -> "rasterize"
      [] ph = "rasterize" -> "backup"
      [] ph = "backup" -> "external_force"
      [] ph = "external_force" -> "calculate_force"
      [] ph = "calculate_force" -> "accumulate_force"
      [] ph = "accumulate_force" -> "resample"
      [] ph = "resample" -> "advect"
      [] ph = "advect" -> "collision"
      [] ph = "collision" -> "idle"

\* ---------------------------------------------------------- rasterize
\* Lines 262-263 without line 261: the grid velocity is not reset.
RasterizeBeginStale ==
    /\ Running
    /\ pc = "idle"
    /\ calls < max_calls
    /\ particles # <<>>
    /\ grid_mass' = [c \in Cells(res) |-> 0]
    /\ pc' = "rasterize"
    /\ todo' = DOMAIN particles
    /\ calls' = calls + 1
    /\ UNCHANGED <<config, particles, grid_velocity, grid_velocity_backup,
                   grid_locks, current_t, workers, max_calls, failure>>

\* Lines 261-263: reset the grids and start the particle pass.
RasterizeBegin ==
    /\ Running
    /\ pc = "idle"
    /\ calls < max_calls
    /\ particles # <<>>
    /\ grid_velocity' = [c \in Cells(res) |-> Zero3]
    /\ grid_mass' = [c \in Cells(res) |-> 0]
    /\ pc' = PhaseAfter(pc)
    /\ todo' = DOMAIN particles
    /\ calls' = calls + 1
    /\ UNCHANGED <<config, particles, grid_velocity_backup, grid_locks,
                   current_t, workers, max_calls, failure>>

CellOf(wk) == get_bounded_rasterization_region(particles[wk.p].pos, res)[wk.k]
RegionLen(wk) == Len(get_bounded_rasterization_region(particles[wk.p].pos, res))

\* The worker after the body of the loop over the region: the next cell, or
\* the particle is finished.
NextCell(wk, first) ==
    IF wk.k < RegionLen(wk)
    THEN [Idle EXCEPT !.st = first, !.p = wk.p, !.k = wk.k + 1]
    ELSE Idle

\* grid_locks[ind].lock(): the caller waits until the lock is free.
Lock(th, ind) ==
    /\ grid_locks[ind] = 0
    /\ grid_locks' = [grid_locks EXCEPT ![ind] = th]

\* grid_locks[ind].unlock()
Unlock(th, ind) == grid_locks' = [grid_locks EXCEPT ![ind] = 0]

\* A failed assert(x <= 2) aborts the process ...
AssertAborts ==
    /\ ~ndebug
    /\ fatal' = "kernel"
    /\ aborted' = TRUE
    /\ UNCHANGED ndebug

\* ... unless the build has no assertions (NDEBUG): the check is not there.
AssertSkipped ==
    /\ fatal' = "kernel"
    /\ ndebug' = TRUE
    /\ UNCHANGED aborted

\* Lines 264-267 without line 267: the cell is entered without its lock.
RasterizeNoLock(th) ==
    LET wk == workers[th] IN
    /\ Running
    /\ wk.st = "r_lock"
    /\ IF RegionLen(wk) = 0
       THEN workers' = [workers EXCEPT ![th] = Idle]
       ELSE workers' = [workers EXCEPT ![th] =
                [wk EXCEPT !.st = "r_mass_read",
                           !.weight = w3(VSub(NodePos(CellOf(wk)), particles[wk.p].pos))]]
    /\ UNCHANGED <<config, particles, grid, current_t, pc, todo, calls, max_calls, failure>>

\* Lines 264-267: the next cell of the region, its weight, and its lock.
RasterizeLock(th) ==
    LET wk == workers[th] IN
    /\ Running
    /\ wk.st = "r_lock"
    /\ IF RegionLen(wk) = 0
       THEN /\ workers' = [workers EXCEPT ![th] = Idle]
            /\ UNCHANGED <<grid_locks, failure>>
       ELSE \E ind \in {CellOf(wk)} :
            \E d_pos \in {VSub(NodePos(ind), particles[wk.p].pos)} :
            LET got == [wk EXCEPT !.st = "r_mass_read", !.weight = w3(d_pos)]
            IN  IF KernelVecOk(d_pos)
                THEN /\ Lock(th, ind)
                     /\ workers' = [workers EXCEPT ![th] = got]
                     /\ UNCHANGED failure
                ELSE \/ /\ AssertAborts
                        /\ UNCHANGED <<grid_locks, workers>>
                     \/ /\ AssertSkipped
                        /\ Lock(th, ind)
                        /\ workers' = [workers EXCEPT ![th] = got]
    /\ UNCHANGED <<config, particles, grid_mass, grid_velocity,
                   grid_velocity_backup, current_t, pc, todo, calls, max_calls>>

\* Line 268, grid_mass[ind] += weight * p.mass: the read ...
RasterizeMassRead(th) ==
    LET wk == workers[th] IN
    /\ Running
    /\ wk.st = "r_mass_read"
    /\ workers' = [workers EXCEPT ![th] =
                      [wk EXCEPT !.st = "r_mass_write", !.rm = grid_mass[CellOf(wk)]]]
    /\ UNCHANGED <<config, particles, grid, current_t, pc, todo, calls, max_calls, failure>>

\* ... and the write.
RasterizeMassWrite(th) ==
    LET wk == workers[th] IN
    /\ Running
    /\ wk.st = "r_mass_write"
    /\ grid_mass' = [grid_mass EXCEPT
                        ![CellOf(wk)] = wk.rm + wk.weight * particles[wk.p].mass]
    /\ workers' = [workers EXCEPT ![th] = [wk EXCEPT !.st = "r_vel_read", !.rm = 0]]
    /\ UNCHANGED <<config, particles, grid_velocity, grid_velocity_backup,
                   grid_locks, current_t, pc, todo, calls, max_calls, failure>>

\* Line 269, grid_velocity[ind] += weight * p.mass * (p.v + 3 * p.apic_b * d_pos):
\* the read ...
RasterizeVelRead(th) ==
    LET wk == workers[th] IN
    /\ Running
    /\ wk.st = "r_vel_read"
    /\ workers' = [workers EXCEPT ![th] =
                      [wk EXCEPT !.st = "r_vel_write", !.rv = grid_velocity[CellOf(wk)]]]
    /\ UNCHANGED <<config, particles, grid, current_t, pc, todo, calls, max_calls, failure>>

\* What one particle adds to the momentum of cell ind.
Momentum(p, ind, weight) ==
    LET d_pos == VSub(NodePos(ind), p.pos)
        affine == VQuot(VScale(3, MatVec(p.apic_b, d_pos)), PS * PS)
    IN  VScale(weight * p.mass, VAdd(p.v, affine))

\* ... and the write.
RasterizeVelWrite(th) ==
    LET wk == workers[th] IN
    /\ Running
    /\ wk.st = "r_vel_write"
    /\ \E ind \in {CellOf(wk)} :
       \E added \in {Momentum(particles[wk.p], ind, wk.weight)} :
            grid_velocity' = [grid_velocity EXCEPT ![ind] = VAdd(wk.rv, added)]
    /\ workers' = [workers EXCEPT ![th] = [wk EXCEPT !.st = "r_unlock", !.rv = Zero3]]
    /\ UNCHANGED <<config, particles, grid_mass, grid_velocity_backup,
                   grid_locks, current_t, pc, todo, calls, max_calls, failure>>

\* Line 270 left out: the loop goes on with the lock still held.
RasterizeKeepsLock(th) ==
    LET wk == workers[th] IN
    /\ Running
    /\ wk.st = "r_unlock"
    /\ workers' = [workers EXCEPT ![th] = NextCell(wk, "r_lock")]
    /\ UNCHANGED <<config, particles, grid, current_t, pc, todo, calls, max_calls, failure>>

\* Line 270, and the loop goes on to the next cell.
RasterizeUnlock(th) ==
    LET wk == workers[th] IN
    /\ Running
    /\ wk.st = "r_unlock"
    /\ Unlock(th, CellOf(wk))
    /\ workers' = [workers EXCEPT ![th] = NextCell(wk, "r_lock")]
    /\ UNCHANGED <<config, particles, grid_mass, grid_velocity,
                   grid_velocity_backup, current_t, pc, todo, calls, max_calls, failure>>

\* Lines 273-280 run without waiting for the particle pass.
NormalizeEarly ==
    /\ Running
    /\ pc = "rasterize"
    /\ grid_velocity' = [c \in Cells(res) |->
            IF grid_mass[c] > 0 THEN VQuot(grid_velocity[c], grid_mass[c])
                                ELSE grid_velocity[c]]
    /\ pc' = "backup"
    /\ UNCHANGED <<config, particles, grid_mass, grid_velocity_backup,
                   grid_locks, current_t, todo, workers, calls, max_calls, failure>>

\* Lines 273-280, once the particle pass has returned: every cell of positive
\* mass turns its momentum into a velocity.
RasterizeNormalize ==
    /\ Running
    /\ pc = "rasterize"
    /\ PassDone
    /\ grid_velocity' = [c \in Cells(res) |->
            IF grid_mass[c] > 0 THEN VQuot(grid_velocity[c], grid_mass[c])
                                ELSE grid_velocity[c]]
    /\ pc' = PhaseAfter(pc)
    /\ UNCHANGED <<config, particles, grid_mass, grid_velocity_backup,
                   grid_locks, current_t, todo, workers, calls, max_calls, failure>>

\* ------------------------------------------------ substep, grid phases
\* grid_backup_velocity: the snapshot of the normalized grid velocity.
GridBackupVelocity ==
    /\ Running
    /\ pc = "backup"
    /\ grid_velocity_backup' = grid_velocity
    /\ pc' = PhaseAfter(pc)
    /\ UNCHANGED <<config, particles, grid_mass, grid_velocity, grid_locks,
                   current_t, todo, workers, calls, max_calls, failure>>

\* grid_apply_external_force(gravity, delta_t): every cell that has mass
\* gains delta_t * gravity; then apply_deformation_force starts its first pass.
GridApplyExternalForce ==
    /\ Running
    /\ pc = "external_force"
    /\ grid_velocity' = [c \in Cells(res) |->
            IF grid_mass[c] > 0
            THEN VAdd(grid_velocity[c], VScale(delta_t, gravity))
            ELSE grid_velocity[c]]
    /\ pc' = PhaseAfter(pc)
    /\ todo' = DOMAIN particles
    /\ UNCHANGED <<config, particles, grid_mass, grid_velocity_backup,
                   grid_locks, current_t, workers, calls, max_calls, failure>>

\* ---------------------------------------------- apply_deformation_force
\* tmp_force as the material model computes it from the deformation state
\* of a particle (lines 95-97 and 168-182).  The deformation gradients are
\* not kept: the particles of one type are taken to be in the same
\* deformation state, which stands for a stress of VS (ep) or -2 VS (dp).
Stress(kind) == IF kind = "ep" THEN ScalarM(VS) ELSE ScalarM(-2 * VS)

SetForce(th, f) ==
    /\ particles' = [particles EXCEPT ![workers[th].p].tmp_force = f]
    /\ workers' = [workers EXCEPT ![th] = Idle]
    /\ UNCHANGED failure

\* The run is aborted with the fatal condition what.
Abort(what) ==
    /\ fatal' = what
    /\ aborted' = TRUE
    /\ UNCHANGED <<ndebug, particles, workers>>

\* Lines 324-326, p.calculate_force() of one particle.
\* EPParticle3 (lines 74-97): polar_decomp gives a normal r, or one that is
\* not: P prints dg_e, r and s, and CV(r) stops the run.
\* DPParticle3 (lines 168-182): the three assert_info on the singular values.
CalculateForce(th) ==
    LET wk == workers[th] IN
    /\ Running
    /\ wk.st = "calc"
    /\ \/ SetForce(th, Stress(particles[wk.p].kind))
       \/ /\ particles[wk.p].kind = "ep"
          /\ Abort("polar")
       \/ /\ particles[wk.p].kind = "dp"
          /\ Abort("singular")
    /\ UNCHANGED <<config, grid, current_t, pc, todo, calls, max_calls>>

\* Line 328: the first pass has returned, the second starts.
AccumulateBegin ==
    /\ Running
    /\ pc = "calculate_force"
    /\ PassDone
    /\ pc' = PhaseAfter(pc)
    /\ todo' = DOMAIN particles
    /\ UNCHANGED <<config, particles, grid, current_t, workers, calls, max_calls, failure>>

\* Lines 329-337 without line 338: the cell is entered without its lock.
ForceNoLock(th) ==
    LET wk == workers[th] IN
    /\ Running
    /\ wk.st = "f_mass"
    /\ IF RegionLen(wk) = 0
       THEN workers' = [workers EXCEPT ![th] = Idle]
       ELSE IF grid_mass[CellOf(wk)] = 0
       THEN workers' = [workers EXCEPT ![th] = NextCell(wk, "f_mass")]
       ELSE workers' = [workers EXCEPT ![th] =
                [wk EXCEPT !.st = "f_vel_read", !.mass = grid_mass[CellOf(wk)],
                           !.force = MatVec(particles[wk.p].tmp_force,
                               dw3(VSub(particles[wk.p].pos, NodePos(CellOf(wk)))))]]
    /\ UNCHANGED <<config, particles, grid, current_t, pc, todo, calls, max_calls, failure>>

\* Lines 329-338: the next cell of the region; a cell without mass is
\* skipped; otherwise the force on it, and its lock.
ForceLock(th) ==
    LET wk == workers[th] IN
    /\ Running
    /\ wk.st = "f_mass"
    /\ IF RegionLen(wk) = 0
       THEN /\ workers' = [workers EXCEPT ![th] = Idle]
            /\ UNCHANGED <<grid_locks, failure>>
       ELSE \E ind \in {CellOf(wk)} :
            \E d_pos \in {VSub(particles[wk.p].pos, NodePos(ind))} :
            \E gw \in {dw3(d_pos)} :
            LET mass == grid_mass[ind]
                got == [wk EXCEPT !.st = "f_vel_read", !.mass = mass,
                                  !.force = MatVec(particles[wk.p].tmp_force, gw)]
            IN  IF mass = 0
                THEN /\ workers' = [workers EXCEPT ![th] = NextCell(wk, "f_mass")]
                     /\ UNCHANGED <<grid_locks, failure>>
                ELSE IF KernelVecOk(d_pos)
                THEN /\ Lock(th, ind)
                     /\ workers' = [workers EXCEPT ![th] = got]
                     /\ UNCHANGED failure
                ELSE \/ /\ AssertAborts
                        /\ UNCHANGED <<grid_locks, workers>>
                     \/ /\ AssertSkipped
                        /\ Lock(th, ind)
                        /\ workers' = [workers EXCEPT ![th] = got]
    /\ UNCHANGED <<config, particles, grid_mass, grid_velocity,
                   grid_velocity_backup, current_t, pc, todo, calls, max_calls>>

\* Line 339, grid_velocity[ind] += delta_t / mass * force: the read ...
ForceVelRead(th) ==
    LET wk == workers[th] IN
    /\ Running
    /\ wk.st = "f_vel_read"
    /\ workers' = [workers EXCEPT ![th] =
                      [wk EXCEPT !.st = "f_vel_write", !.rv = grid_velocity[CellOf(wk)]]]
    /\ UNCHANGED <<config, particles, grid, current_t, pc, todo, calls, max_calls, failure>>

\* ... and the write.
ForceVelWrite(th) ==
    LET wk == workers[th] IN
    /\ Running
    /\ wk.st = "f_vel_write"
    /\ grid_velocity' = [grid_velocity EXCEPT ![CellOf(wk)] =
            VAdd(wk.rv, VQuot(VScale(delta_t, wk.force), wk.mass))]
    /\ workers' = [workers EXCEPT ![th] = [wk EXCEPT !.st = "f_unlock", !.rv = Zero3]]
    /\ UNCHANGED <<config, particles, grid_mass, grid_velocity_backup,
                   grid_locks, current_t, pc, todo, calls, max_calls, failure>>

\* Line 340, and the loop goes on to the next cell.
ForceUnlock(th) ==
    LET wk == workers[th] IN
    /\ Running
    /\ wk.st = "f_unlock"
    /\ Unlock(th, CellOf(wk))
    /\ workers' = [workers EXCEPT ![th] = NextCell(wk, "f_mass")]
    /\ UNCHANGED <<config, particles, grid_mass, grid_velocity,
                   grid_velocity_backup, current_t, pc, todo, calls, max_calls, failure>>

\* ------------------------------------------ grid_apply_boundary_conditions
\* Integer square root (rounded down), by bisection on lo <= r < hi.
RECURSIVE SqrtBetween(_, _, _)
SqrtBetween(x, lo, hi) ==
    IF hi - lo <= 1 THEN lo
    ELSE LET mid == (lo + hi) \div 2
         IN  IF mid * mid <= x THEN SqrtBetween(x, mid, hi)
                               ELSE SqrtBetween(x, lo, mid)
Sqrt(x) == SqrtBetween(x, 0, 46340)

length(a) == Sqrt(Dot(a, a))

\* A direction is kept in 1/VS; normalize(t) = t / length(t).
normalize(a) == VQuot(VScale(VS, a), length(a))

\* friction is in 1/MuS
MuS == 2

\* Lines 347-370 with "v + n * pressure + t * friction" short of n * pressure.
BoundaryCellNoPush(vel, phi, n, td, mu) ==
    LET boundary_velocity == VScale(td, n)
        v == VSub(vel, boundary_velocity)
        pressure == Max(-Dot(v, n), 0)
        t0 == VSub(v, VScale(Dot(v, n), n))
        t == IF length(t0) > 0 THEN normalize(t0) ELSE t0
        friction == -clamp(Quot(Dot(t, v), VS),
                           -Quot(mu * pressure, MuS), Quot(mu * pressure, MuS))
        slid == VAdd(v, VQuot(VScale(friction, t), VS))
    IN  IF phi > PS THEN vel
        ELSE IF phi > 0
             THEN IF mu < 0 THEN VAdd(Zero3, boundary_velocity)
                            ELSE VAdd(slid, boundary_velocity)
             ELSE VAdd(Zero3, boundary_velocity)

\* Lines 347-370 for one cell: the velocity stored for a cell that holds vel,
\* at signed distance phi (1/PS cells) from a boundary of gradient n moving at
\* td * n, with friction mu.
BoundaryCell(vel, phi, n, td, mu) ==
    LET boundary_velocity == VScale(td, n)
        v == VSub(vel, boundary_velocity)
        pressure == Max(-Dot(v, n), 0)
        t0 == VSub(v, VScale(Dot(v, n), n))
        \* length(t) > 1e-6f: on the 1/VS lattice, any t that is not zero
        t == IF length(t0) > 0 THEN normalize(t0) ELSE t0
        friction == -clamp(Quot(Dot(t, v), VS),
                           -Quot(mu * pressure, MuS), Quot(mu * pressure, MuS))
        slid == VAdd(VAdd(v, VScale(pressure, n)), VQuot(VScale(friction, t), VS))
    IN  IF phi > PS THEN vel
        ELSE IF phi > 0
             THEN IF mu < 0 THEN VAdd(Zero3, boundary_velocity)
                            ELSE VAdd(slid, boundary_velocity)
             ELSE VAdd(Zero3, boundary_velocity)

\* Line 392, once apply_deformation_force has returned; then resample starts
\* its particle pass.
GridApplyBoundaryConditions ==
    /\ Running
    /\ pc = "accumulate_force"
    /\ PassDone
    /\ grid_velocity' = [c \in Cells(res) |->
            BoundaryCell(grid_velocity[c],
                         LSSample(levelset, NodePos(c), current_t),
                         LSGradient(levelset, NodePos(c), current_t),
                         LSTemporal(levelset, NodePos(c), current_t),
                         levelset.friction)]
    /\ pc' = PhaseAfter(pc)
    /\ todo' = DOMAIN particles
    /\ UNCHANGED <<config, particles, grid_mass, grid_velocity_backup,
                   grid_locks, current_t, workers, calls, max_calls, failure>>

\* ------------------------------------------------------------ resample
\* Lines 293-309: the sums over the first k cells of the region.
RECURSIVE Gather(_, _, _)
Gather(p, region, k) ==
    IF k = 0 THEN [v |-> Zero3, bv |-> Zero3, b |-> ZeroM]
    ELSE LET ind == region[k]
             d_pos == VSub(p.pos, NodePos(ind))
             weight == w3(d_pos)
             grid_vel == grid_velocity[ind]
             out == Outer(grid_vel, VScale(-1, d_pos))
             rest == Gather(p, region, k - 1)
         IN  [v |-> VAdd(rest.v, VScale(weight, grid_vel)),
              bv |-> VAdd(rest.bv, VScale(weight, grid_velocity_backup[ind])),
              b |-> MAdd(rest.b, <<VScale(weight, out[1]), VScale(weight, out[2]),
                                   VScale(weight, out[3])>>)]

\* Every kernel argument of the region's cells is within the asserted range.
RegionArgsOk(p, region) ==
    \A k \in DOMAIN region : KernelVecOk(VSub(p.pos, NodePos(region[k])))

\* Lines 310-318 on the fields kept of a particle.
Resampled(p) ==
    LET region == get_bounded_rasterization_region(p.pos, res)
        sum == Gather(p, region, Len(region))
        v == VQuot(sum.v, W3)
        bv == VQuot(sum.bv, W3)
        b == IF Len(region) # 64 \/ ~apic THEN ZeroM ELSE MQuot(sum.b, W3)
    IN  [p EXCEPT !.apic_b = b,
                  !.v = IF apic THEN v ELSE VAdd(VSub(v, bv), p.v)]

\* Lines 288-319 for one particle.
Resample(th) ==
    LET wk == workers[th]
        p == particles[wk.p]
        done == /\ particles' = [particles EXCEPT ![wk.p] = Resampled(p)]
                /\ workers' = [workers EXCEPT ![th] = Idle]
    IN
    /\ Running
    /\ wk.st = "resample"
    /\ IF RegionArgsOk(p, get_bounded_rasterization_region(p.pos, res))
       THEN done /\ UNCHANGED failure
       ELSE \/ AssertAborts /\ UNCHANGED <<particles, workers>>
            \/ AssertSkipped /\ done
    /\ UNCHANGED <<config, grid, current_t, pc, todo, calls, max_calls>>

\* Line 394: resample has returned, the advection pass starts.
AdvectBegin ==
    /\ Running
    /\ pc = "resample"
    /\ PassDone
    /\ pc' = PhaseAfter(pc)
    /\ todo' = DOMAIN particles
    /\ UNCHANGED <<config, particles, grid, current_t, workers, calls, max_calls, failure>>

\* eps: the smallest step of a position, so that int(pos) stays below res.
EpsQ == 1

\* Lines 395-398: advect and clamp into the domain.
Advect(th) ==
    LET wk == workers[th]
        p == particles[wk.p]
        moved == VAdd(p.pos, VQuot(VScale(delta_t * PS, p.v), VS))
    IN
    /\ Running
    /\ wk.st = "advect"
    /\ particles' = [particles EXCEPT ![wk.p].pos =
            [a \in 1 .. 3 |-> clamp(moved[a], 0, res[a] * PS - EpsQ)]]
    /\ workers' = [workers EXCEPT ![th] = [wk EXCEPT !.st = "plasticity"]]
    /\ UNCHANGED <<config, grid, current_t, pc, todo, calls, max_calls, failure>>

\* Line 399, p.plasticity() of the same particle, in the same pass.
\* EPParticle3 (lines 99-112) has no fatal condition; DPParticle3 (lines
\* 184-206) ends in error("SVD error") when the SVD does not reconstruct dg_e.
Plasticity(th) ==
    LET wk == workers[th] IN
    /\ Running
    /\ wk.st = "plasticity"
    /\ \/ /\ workers' = [workers EXCEPT ![th] = Idle]
          /\ UNCHANGED <<particles, failure>>
       \/ /\ particles[wk.p].kind = "dp"
          /\ Abort("svd")
    /\ UNCHANGED <<config, grid, current_t, pc, todo, calls, max_calls>>

\* Line 401: the advection pass has returned, particle_collision_resolution
\* starts its pass.
CollisionBegin ==
    /\ Running
    /\ pc = "advect"
    /\ PassDone
    /\ pc' = PhaseAfter(pc)
    /\ todo' = DOMAIN particles
    /\ UNCHANGED <<config, particles, grid, current_t, workers, calls, max_calls, failure>>

\* p.resolve_collision(levelset, t): a particle inside the boundary is moved
\* out along the gradient and loses the velocity along it.
ResolveCollision(th) ==
    LET wk == workers[th]
        p == particles[wk.p]
        phi == LSSample(levelset, p.pos, current_t)
        n == LSGradient(levelset, p.pos, current_t)
    IN
    /\ Running
    /\ wk.st = "collide"
    /\ particles' = IF phi < 0
                    THEN [particles EXCEPT
                            ![wk.p].pos = VSub(p.pos, VScale(phi, n)),
                            ![wk.p].v = VSub(p.v, VScale(Dot(n, p.v), n))]
                    ELSE particles
    /\ workers' = [workers EXCEPT ![th] = Idle]
    /\ UNCHANGED <<config, grid, current_t, pc, todo, calls, max_calls, failure>>

\* Line 403 after a step with particles.
SubstepEnd ==
    /\ Running
    /\ pc = "collision"
    /\ PassDone
    /\ current_t' = current_t + delta_t
    /\ pc' = PhaseAfter(pc)
    /\ UNCHANGED <<config, particles, grid, todo, workers, calls, max_calls, failure>>

\* Line 403 inside the loops it follows: without particles it is not reached.
SubstepEmptyKeepsClock ==
    /\ Running
    /\ pc = "idle"
    /\ calls < max_calls
    /\ particles = <<>>
    /\ calls' = calls + 1
    /\ UNCHANGED <<config, particles, grid, current_t, pc, todo, workers,
                   max_calls, failure>>

\* Lines 381 and 403: substep without particles.
SubstepEmpty ==
    /\ Running
    /\ pc = "idle"
    /\ calls < max_calls
    /\ particles = <<>>
    /\ current_t' = current_t + delta_t
    /\ calls' = calls + 1
    /\ UNCHANGED <<config, particles, grid, pc, todo, workers, max_calls, failure>>

Next ==
    \/ SubstepEmpty
    \/ RasterizeBegin
    \/ \E th \in DOMAIN workers : Take(th)
    \/ \E th \in DOMAIN workers : RasterizeLock(th)
    \/ \E th \in DOMAIN workers : RasterizeMassRead(th)
    \/ \E th \in DOMAIN workers : RasterizeMassWrite(th)
    \/ \E th \in DOMAIN workers : RasterizeVelRead(th)
    \/ \E th \in DOMAIN workers : RasterizeVelWrite(th)
    \/ \E th \in DOMAIN workers : RasterizeUnlock(th)
    \/ RasterizeNormalize
    \/ GridBackupVelocity
    \/ GridApplyExternalForce
    \/ \E th \in DOMAIN workers : CalculateForce(th)
    \/ AccumulateBegin
    \/ \E th \in DOMAIN workers : ForceLock(th)
    \/ \E th \in DOMAIN workers : ForceVelRead(th)
    \/ \E th \in DOMAIN workers : ForceVelWrite(th)
    \/ \E th \in DOMAIN workers : ForceUnlock(th)
    \/ GridApplyBoundaryConditions
    \/ \E th \in DOMAIN workers : Resample(th)
    \/ AdvectBegin
    \/ \E th \in DOMAIN workers : Advect(th)
    \/ \E th \in DOMAIN workers : Plasticity(th)
    \/ CollisionBegin
    \/ \E th \in DOMAIN workers : ResolveCollision(th)
    \/ SubstepEnd

\* -------------------------------------------------------- configurations
\* Where add_particles can put a particle: pos = (i, j, k) + rand(), inside
\* the grid.
SeedPositions(r) == {<<1, 0, 0>>, <<2, 1, 0>>, <<r[1] * PS - 1, 0, 1>>}

\* One call of add_particles: up to maxn particles, all of the configured
\* type and initial velocity.
ParticleSets(r, kinds, vels, maxn) ==
    UNION {{[n \in 1 .. m |-> NewParticle(kind, pos[n], v0)] :
                kind \in kinds, v0 \in vels, pos \in [1 .. m -> SeedPositions(r)]} :
           m \in 0 .. maxn}

\* A wall across x.  Still, with friction 1/2: cell 0 is behind it, cell 1 in
\* the band of width one cell, the cells from 2 on beyond the band.
StillWall == [n |-> <<1, 0, 0>>, off |-> 1, td |-> 0, friction |-> 1]
\* The same wall, sticky and moving.
MovingWall == [n |-> <<1, 0, 0>>, off |-> 1, td |-> 1, friction |-> -1]
\* A boundary whose surface lies half a cell outside the grid, at x = -1/2:
\* the whole grid is inside it.
OuterWall == [n |-> <<-1, 0, 0>>, off |-> 1, td |-> 0, friction |-> 2]

Gravity == <<-(VS \div 2), -(VS \div 2), 0>>

InitConfig(rs, dts, apics, threads, lss) ==
    /\ res \in rs
    /\ gravity = Gravity
    /\ delta_t \in dts
    /\ apic \in apics
    /\ num_threads \in threads
    /\ levelset \in lss

\* The simulation after initialize and add_particles, run by one thread for
\* MaxSubsteps steps.
Init ==
    /\ InitConfig({<<ResX, 1, 1>>}, {1, 2}, BOOLEAN, {1},
                  {StillWall, MovingWall, OuterWall})
    /\ particles \in ParticleSets(res, {"ep", "dp"}, {Zero3, <<VS, 0, 0>>},
                                  MaxParticles)
    /\ InitGrid
    /\ InitControl(MaxSubsteps)

Spec == Init /\ [][Next]_vars

\* Particles whose regions overlap: particle n at x = n/2, on alternating y.
Row(kind, m) ==
    [n \in 1 .. m |-> NewParticle(kind, <<n, n % 2, 0>>, <<VS, 0, 0>>)]

\* One step run by a pool of NumThreads workers.
InitPar ==
    /\ InitConfig({<<ResX, 1, 1>>}, {1}, {TRUE}, {NumThreads}, {StillWall})
    /\ particles \in {Row(kind, m) : kind \in {"ep", "dp"}, m \in 0 .. MaxParticles}
    /\ InitGrid
    /\ InitControl(1)

SpecPar == InitPar /\ [][Next]_vars

\* ---- rasterize on a grid that holds a whole 4x4x4 region
MassRes == <<4, 4, 4>>

\* Placements in the domain: the region inside the grid; clipped at the low
\* side of x; clipped at the high side of x; on a node, with the clipped node
\* at distance 2; clipped on two axes.
MassPositions(r) ==
    <<(<<2, 2, 2>>), (<<1, 2, 3>>), (<<r[1] * PS - 1, 3, 2>>),
      (<<(r[1] - 2) * PS, 2, 2>>), (<<0, r[2] * PS - 1, 3>>)>>

\* Particle sets of up to maxn particles, as add_particles makes them, on
\* these placements (the order of the particles does not matter to the sums).
MassParticleSets(r, maxn) ==
    UNION {{[n \in 1 .. m |-> NewParticle("ep", MassPositions(r)[ix[n]], <<VS, 0, 0>>)] :
                ix \in {f \in [1 .. m -> DOMAIN MassPositions(r)] :
                            \A a, b \in 1 .. m : a <= b => f[a] <= f[b]}} :
           m \in 0 .. maxn}

InitMass ==
    /\ InitConfig({MassRes}, {1}, {TRUE}, {1}, {StillWall})
    /\ particles \in MassParticleSets(res, MaxParticles)
    /\ InitGrid
    /\ InitControl(1)

SpecMass == InitMass /\ [][Next]_vars

\* ---- grid_apply_boundary_conditions on one cell
\* Grid velocities, in 1/VS.
BoundarySpeeds == {-180, 0, 60, 240}
BoundaryVelocities == BoundarySpeeds \X BoundarySpeeds \X BoundarySpeeds

\* Boundaries through or near the cell at the origin: unit gradient along an
\* axis, distance 3/2 .. -1/2 cells, moving in or out or at rest, sticky or
\* with friction 0, 1/2, 2.
BoundaryLevelSets ==
    {[n |-> n, off |-> off, td |-> td, friction |-> mu] :
        n \in {<<1, 0, 0>>, <<-1, 0, 0>>, <<0, 1, 0>>, <<0, 0, -1>>},
        off \in -3 .. 1, td \in {-2, 0, 2}, mu \in {-1, 0, 1, 4}}

\* The tangential part of vel relative to the boundary has a length and a
\* direction on the lattice, so that sqrt and normalize are exact.
OnLattice(vel, ls) ==
    LET v == VSub(vel, VScale(LSTemporal(ls, Zero3, 0), ls.n))
        t0 == VSub(v, VScale(Dot(v, ls.n), ls.n))
    IN  /\ length(t0) * length(t0) = Dot(t0, t0)
        /\ length(t0) > 0 =>
              \A a \in 1 .. 3 : (VS * t0[a]) % length(t0) = 0

\* The state before line 392 of a step on a grid of one cell that holds one
\* particle and a velocity that the forces have left there.
InitBoundary ==
    /\ InitConfig({<<1, 1, 1>>}, {1}, {FALSE}, {1}, BoundaryLevelSets)
    /\ particles = <<[NewParticle("ep", Zero3, Zero3) EXCEPT !.tmp_force = Stress("ep")]>>
    /\ grid_mass = [c \in Cells(res) |-> w3(Zero3)]
    /\ grid_velocity \in [Cells(res) -> BoundaryVelocities]
    /\ \A c \in Cells(res) : OnLattice(grid_velocity[c], levelset)
    /\ grid_velocity_backup = [c \in Cells(res) |-> Zero3]
    /\ grid_locks = [c \in Cells(res) |-> 0]
    /\ max_calls = 1 /\ calls = 1 /\ current_t = 0
    /\ pc = "accumulate_force" /\ todo = {}
    /\ workers = [th \in 1 .. num_threads |-> Idle]
    /\ fatal = "none" /\ aborted = FALSE /\ ndebug = FALSE

SpecBoundary == InitBoundary /\ [][GridApplyBoundaryConditions]_vars

\* ------------------------------------------- single-threaded execution
\* rasterize and apply_deformation_force as one thread runs them: particle
\* after particle, cell after cell of its region.
EmptyGrid == [mass |-> [c \in Cells(res) |-> 0], vel |-> [c \in Cells(res) |-> Zero3]]

\* Lines 264-271 for the first k cells of the region of p.
RECURSIVE SerialRasterize(_, _, _, _)
SerialRasterize(g, p, region, k) ==
    IF k = 0 THEN g
    ELSE LET h == SerialRasterize(g, p, region, k - 1)
             ind == region[k]
             weight == w3(VSub(NodePos(ind), p.pos))
         IN  [mass |-> [h.mass EXCEPT ![ind] = @ + weight * p.mass],
              vel |-> [h.vel EXCEPT ![ind] = VAdd(@, Momentum(p, ind, weight))]]

\* Lines 263-272 for the first m particles.
RECURSIVE SerialAccumulated(_)
SerialAccumulated(m) ==
    IF m = 0 THEN EmptyGrid
    ELSE LET region == get_bounded_rasterization_region(particles[m].pos, res)
         IN  SerialRasterize(SerialAccumulated(m - 1), particles[m], region, Len(region))

\* Lines 273-280.
SerialNormalized(g) ==
    [g EXCEPT !.vel = [c \in Cells(res) |->
        IF g.mass[c] > 0 THEN VQuot(g.vel[c], g.mass[c]) ELSE g.vel[c]]]

\* grid_apply_external_force
SerialForced(g) ==
    [g EXCEPT !.vel = [c \in Cells(res) |->
        IF g.mass[c] > 0 THEN VAdd(g.vel[c], VScale(delta_t, gravity)) ELSE g.vel[c]]]

\* Lines 329-341 for the first k cells of the region of p.
RECURSIVE SerialDeform(_, _, _, _)
SerialDeform(g, p, region, k) ==
    IF k = 0 THEN g
    ELSE LET h == SerialDeform(g, p, region, k - 1)
             ind == region[k]
             mass == h.mass[ind]
             force == MatVec(p.tmp_force, dw3(VSub(p.pos, NodePos(ind))))
         IN  IF mass = 0 THEN h
             ELSE [h EXCEPT !.vel[ind] = VAdd(@, VQuot(VScale(delta_t, force), mass))]

\* Lines 328-342 for the first m particles, on the grid g.
RECURSIVE SerialDeformed(_, _)
SerialDeformed(g, m) ==
    IF m = 0 THEN g
    ELSE LET region == get_bounded_rasterization_region(particles[m].pos, res)
         IN  SerialDeform(SerialDeformed(g, m - 1), particles[m], region, Len(region))

SerialAfterRasterize == SerialNormalized(SerialAccumulated(Len(particles)))
SerialAfterDeformation ==
    SerialDeformed(SerialForced(SerialAfterRasterize), Len(particles))

\* What a worker does in the two passes that lock cells.
AccumulationStep ==
    \E th \in DOMAIN workers :
        \/ Take(th)
        \/ RasterizeLock(th) \/ RasterizeMassRead(th) \/ RasterizeMassWrite(th)
        \/ RasterizeVelRead(th) \/ RasterizeVelWrite(th) \/ RasterizeUnlock(th)
        \/ ForceLock(th) \/ ForceVelRead(th) \/ ForceVelWrite(th) \/ ForceUnlock(th)

\* The scheduler keeps the pool running: as long as some worker can take a
\* step of its pass, some worker takes one.
SpecParFair == InitPar /\ [][Next]_vars /\ WF_vars(AccumulationStep)

\* ============================================================== claims
\* ------------------------------------------------------------------ C1
SubstepOrder == <<"idle", "rasterize", "backup", "external_force",
                  "calculate_force", "accumulate_force", "resample", "advect",
                  "collision", "idle">>
Follows(a, b) == \E i \in 1 .. Len(SubstepOrder) - 1 :
                    SubstepOrder[i] = a /\ SubstepOrder[i + 1] = b

\* What a worker can be doing in each phase.
StagesOf(ph) ==
    CASE ph = "rasterize" -> {"r_lock", "r_mass_read", "r_mass_write",
                              "r_vel_read", "r_vel_write", "r_unlock"}
      [] ph = "calculate_force" -> {"calc"}
      [] ph = "accumulate_force" -> {"f_mass", "f_vel_read", "f_vel_write", "f_unlock"}
      [] ph = "resample" -> {"resample"}
      [] ph = "advect" -> {"advect", "plasticity"}
      [] ph = "collision" -> {"collide"}
      [] OTHER -> {}

\* Particle i has been advected in the running advection pass.
Advected(i) ==
    /\ i \notin todo
    /\ \A th \in DOMAIN workers : workers[th].p = i => workers[th].st # "advect"
\* plasticity of particle i has started (it is about to run, or has run).
PlasticityStarted(i) ==
    /\ i \notin todo
    /\ \A th \in DOMAIN workers : workers[th].p = i => workers[th].st = "plasticity"

\* The phases follow each other in the order of substep, each entered once
\* per call and left only when its pass is over.
PhasesInOrder ==
    [][/\ pc' # pc => Follows(pc, pc') /\ PassDone
       /\ \A th \in DOMAIN workers :
            workers'[th].st # "idle" => workers'[th].st \in StagesOf(pc')
       /\ grid_mass' # grid_mass => pc \in {"idle", "rasterize"}
       /\ grid_velocity_backup' # grid_velocity_backup => pc = "backup"
       /\ grid_velocity' # grid_velocity =>
            pc \in {"idle", "rasterize", "external_force", "accumulate_force"}
       /\ particles' # particles =>
            pc \in {"calculate_force", "resample", "advect", "collision"}
       /\ current_t' # current_t => pc \in {"idle", "collision"}]_vars

\* C1 as stated: the phases run in the order rasterize, backup, external
\* force, deformation force, boundary conditions, resample, advect,
\* plasticity, collision, clock, and no phase starts before the one before it
\* has finished for all particles: plasticity starts for no particle before
\* every particle has been advected.
C1_PhasesSeparated ==
    /\ PhasesInOrder
    /\ [](pc = "advect" =>
            \A i, j \in DOMAIN particles : PlasticityStarted(i) => Advected(j))

\* C1, amended: the phases run in the stated order, each left only when its
\* pass has finished for all particles, with advect and plasticity being one
\* pass: a particle's plasticity follows its own advection (and clamp), not
\* the advection of the others.
C1_PhaseOrder ==
    /\ PhasesInOrder
    /\ [][\A th \in DOMAIN workers :
            (workers'[th].st = "plasticity" /\ workers[th].st # "plasticity") =>
                /\ workers[th].st = "advect" /\ workers'[th].p = workers[th].p
                /\ \A a \in 1 .. 3 :
                     /\ particles'[workers[th].p].pos[a] >= 0
                     /\ particles'[workers[th].p].pos[a] < res[a] * PS]_vars

\* A step with two particles has gone through every phase up to the clock.
C1_Witness ==
    /\ pc = "collision" /\ PassDone /\ Len(particles) >= 2 /\ num_threads >= 2
    /\ calls = 1 /\ ~aborted

\* ------------------------------------------------------------------ C2
\* The stages of a worker between lock() and unlock() of its cell.
Locked == {"r_mass_read", "r_mass_write", "r_vel_read", "r_vel_write", "r_unlock",
           "f_vel_read", "f_vel_write", "f_unlock"}
InLocked(th) == workers[th].st \in Locked

\* C2: a worker that accumulates into a cell holds the lock of that cell from
\* before the read to after the write; no two workers are between the read
\* and the write of the same cell at the same time; and the value a worker
\* has read is still the value of the cell when it writes the sum back, so no
\* contribution is lost.
C2_LockedReadModifyWrite ==
    /\ \A th \in DOMAIN workers :
         InLocked(th) => grid_locks[CellOf(workers[th])] = th
    /\ \A t1, t2 \in DOMAIN workers :
         (t1 # t2 /\ InLocked(t1) /\ InLocked(t2)) =>
             CellOf(workers[t1]) # CellOf(workers[t2])
    /\ \A th \in DOMAIN workers :
         /\ workers[th].st = "r_mass_write" =>
                workers[th].rm = grid_mass[CellOf(workers[th])]
         /\ workers[th].st \in {"r_vel_write", "f_vel_write"} =>
                workers[th].rv = grid_velocity[CellOf(workers[th])]

\* One worker is between the read and the write of a cell that another
\* worker is waiting for.
C2_Witness ==
    \E t1, t2 \in DOMAIN workers :
        /\ t1 # t2
        /\ workers[t1].st \in {"r_mass_write", "f_vel_write"}
        /\ workers[t2].st \in {"r_lock", "f_mass"}
        /\ workers[t2].k <= RegionLen(workers[t2])
        /\ CellOf(workers[t1]) = CellOf(workers[t2])
        /\ grid_locks[CellOf(workers[t1])] = t1

\* ------------------------------------------------------------------ C3
\* Some cell holds the mass of more than one particle.
SharedCell ==
    \E c \in Cells(res) : \A i \in DOMAIN particles :
        grid_mass[c] > w3(VSub(NodePos(c), particles[i].pos)) * particles[i].mass

\* C3: with NumThreads workers, in every interleaving, the grid after
\* rasterize and the grid after apply_deformation_force are, cell by cell,
\* the grid that one thread computes from the same particles.
C3_SameAsSingleThread ==
    /\ pc = "backup" =>
         /\ grid_mass = SerialAfterRasterize.mass
         /\ grid_velocity = SerialAfterRasterize.vel
    /\ (pc = "accumulate_force" /\ PassDone) =>
         /\ grid_mass = SerialAfterDeformation.mass
         /\ grid_velocity = SerialAfterDeformation.vel

\* Two workers have finished apply_deformation_force on particles that share
\* a cell, and the forces have changed the grid.
C3_Witness ==
    /\ pc = "accumulate_force" /\ PassDone /\ ~aborted
    /\ num_threads >= 2 /\ Len(particles) >= 2 /\ SharedCell
    /\ grid_velocity # SerialForced(SerialAfterRasterize).vel

\* ------------------------------------------------------------------ C5
\* C5: the normalization of rasterize, the boundary conditions and resample
\* run only when no worker is accumulating: normalization starts when every
\* worker has finished and the grid holds the complete sums of mass and
\* momentum; boundary conditions and resample start when every worker of
\* apply_deformation_force has finished and the grid holds every force.
C5_BarrierBeforeUnlockedPass ==
    [][/\ (pc = "rasterize" /\ pc' # pc) =>
            /\ PassDone
            /\ grid_mass = SerialAccumulated(Len(particles)).mass
            /\ grid_velocity = SerialAccumulated(Len(particles)).vel
       /\ (pc = "accumulate_force" /\ pc' # pc) =>
            /\ PassDone
            /\ grid_velocity = SerialAfterDeformation.vel
       /\ pc' \in {"backup", "external_force", "resample"} =>
            \A th \in DOMAIN workers : workers'[th].st \notin Locked \cup {"r_lock", "f_mass"}
       /\ pc' \in {"backup", "external_force", "resample"} =>
            \A c \in Cells(res) : grid_locks'[c] = 0]_vars

\* The normalization has run on a grid to which two workers have added
\* particles sharing a cell.
C5_Witness ==
    /\ pc = "backup" /\ num_threads >= 2 /\ Len(particles) >= 2 /\ SharedCell
    /\ \E c \in Cells(res) : grid_mass[c] > 0 /\ grid_velocity[c] # Zero3

\* ----------------------------------------------------------------- C10
LocksHeld(th) == {c \in Cells(res) : grid_locks[c] = th}

\* C10: a worker holds at most one cell lock, and only between lock() and
\* unlock() of its current cell; under fair scheduling every accumulation
\* pass comes to its end (or the run is aborted), whatever the overlap of the
\* regions; and at the end of the pass every lock is free.
C10_LocksAndTermination ==
    /\ [](\A th \in DOMAIN workers :
            /\ Cardinality(LocksHeld(th)) <= 1
            /\ ~InLocked(th) => LocksHeld(th) = {})
    /\ [](PassDone => \A c \in Cells(res) : grid_locks[c] = 0)
    /\ \A ph \in {"rasterize", "accumulate_force"} :
            (pc = ph) ~> ((pc = ph /\ PassDone) \/ aborted)

\* A pass in which a worker had to wait for a lock has ended: a worker holds
\* a lock that the other needs for its next cell ...
C10_Witness ==
    /\ pc = "accumulate_force" /\ ~PassDone /\ todo = {}
    /\ \E t1, t2 \in DOMAIN workers :
        /\ t1 # t2 /\ InLocked(t1) /\ workers[t2].st = "f_mass"
        /\ workers[t2].k <= RegionLen(workers[t2])
        /\ CellOf(workers[t1]) = CellOf(workers[t2])
        /\ grid_mass[CellOf(workers[t2])] # 0

\* ------------------------------------------------------------------ C4
\* C4: every call of substep that returns has advanced current_t by exactly
\* delta_t, with or without particles, and nothing else moves the clock; a
\* call on an empty particle set changes neither the grid nor the particles;
\* after k calls the clock stands at k * delta_t.
C4_ClockAdvances ==
    /\ [](pc = "idle" => current_t = calls * delta_t)
    /\ [](pc # "idle" => current_t = (calls - 1) * delta_t)
    /\ [][/\ (pc' = "idle" /\ (pc # "idle" \/ calls' # calls)) =>
                current_t' = current_t + delta_t
          /\ current_t' # current_t => pc' = "idle"
          /\ (calls' # calls /\ particles = <<>>) =>
                /\ current_t' = current_t + delta_t
                /\ UNCHANGED <<particles, grid_mass, grid_velocity,
                               grid_velocity_backup, grid_locks>>]_vars

\* substep has returned twice on an empty particle set.
C4_Witness ==
    /\ pc = "idle" /\ calls = 2 /\ particles = <<>>
    /\ delta_t = 2 /\ current_t = 4

\* ------------------------------------------------------------------ C7
InDomain(pos) == \A a \in 1 .. 3 : pos[a] >= 0 /\ pos[a] < res[a] * PS
AllInDomain == \A i \in DOMAIN particles : InDomain(particles[i].pos)
ZeroMassCells == {c \in Cells(res) : grid_mass[c] = 0}
PastMassCheck == {"f_vel_read", "f_vel_write", "f_unlock"}

\* No worker is dividing by a zero cell mass.
NoZeroDivisor ==
    \A th \in DOMAIN workers :
        workers[th].st \in PastMassCheck =>
            /\ workers[th].mass # 0
            /\ workers[th].mass = grid_mass[CellOf(workers[th])]

RECURSIVE SumMass(_)
SumMass(cells) ==
    IF cells = {} THEN 0
    ELSE LET c == CHOOSE x \in cells : TRUE
         IN  grid_mass[c] + SumMass(cells \ {c})
TotalGridMass == SumMass(Cells(res))

Region(i) == get_bounded_rasterization_region(particles[i].pos, res)
\* The region of particle i is the whole 4x4x4 block, inside the grid.
FullyInside(i) == Len(Region(i)) = 64

\* The kernel weights of particle i on the first k cells of its region.
RECURSIVE RegionWeight(_, _)
RegionWeight(i, k) ==
    IF k = 0 THEN 0
    ELSE w3(VSub(NodePos(Region(i)[k]), particles[i].pos)) + RegionWeight(i, k - 1)
WeightInGrid(i) == RegionWeight(i, Len(Region(i)))

RECURSIVE SumOfParticles(_, _)
SumOfParticles(Share(_), n) ==
    IF n = 0 THEN 0 ELSE Share(n) + SumOfParticles(Share, n - 1)

WholeIfInside(i) == IF FullyInside(i) THEN particles[i].mass * W3 ELSE 0
ShareInGrid(i) == particles[i].mass * WeightInGrid(i)

\* C6 as stated: after rasterize the total grid mass is the sum of the masses
\* of the particles whose region lies fully inside the grid.
C6_MassOfInsideParticles ==
    pc = "backup" => TotalGridMass = SumOfParticles(WholeIfInside, Len(particles))

\* C6, amended: after rasterize the total grid mass is the sum, over all
\* particles, of the mass times the kernel weight that falls on the cells of
\* the grid: the whole mass for a particle whose region lies fully inside
\* the grid, and for a particle whose region is clipped the part left, more
\* than nothing and at most the whole.
C6_MassOfWeightsInGrid ==
    pc = "backup" =>
        /\ TotalGridMass = SumOfParticles(ShareInGrid, Len(particles))
        /\ \A i \in DOMAIN particles :
            /\ FullyInside(i) => WeightInGrid(i) = W3
            /\ WeightInGrid(i) > 0 /\ WeightInGrid(i) <= W3

\* rasterize has run on a particle inside, a clipped particle that has lost
\* mass, and (from three particles on) a clipped one that has lost none.
C6_Witness ==
    /\ pc = "backup" /\ Len(particles) >= 2
    /\ \E i, j \in DOMAIN particles :
        /\ FullyInside(i)
        /\ ~FullyInside(j) /\ WeightInGrid(j) < W3
    /\ TotalGridMass > W3

\* ------------------------------------------------------------------ C9
\* The part of a velocity across the gradient n.
Tangential(v, n) == VSub(v, VScale(Dot(v, n), n))

\* What C9 says of one cell that held vel and now holds new.
Bounced(vel, new, phi, n, td, mu) ==
    LET boundary_velocity == VScale(td, n)
        v == VSub(vel, boundary_velocity)
        out == VSub(new, boundary_velocity)
        pressure == Max(-Dot(v, n), 0)
        change == VSub(Tangential(out, n), Tangential(v, n))
    IN  /\ (phi <= PS /\ Dot(n, n) = 1) =>
            /\ Dot(out, n) >= 0
            /\ (phi <= 0 \/ mu < 0) => out = Zero3
            /\ (phi > 0 /\ mu >= 0) =>
                /\ MuS * MuS * Dot(change, change) <= mu * pressure * mu * pressure
                /\ Dot(Tangential(out, n), Tangential(v, n)) >= 0
                /\ Dot(Tangential(out, n), Tangential(out, n))
                        <= Dot(Tangential(v, n), Tangential(v, n))
        /\ phi > PS => new = vel

\* C9: the boundary conditions leave, in every cell within distance 1 of a
\* boundary of unit gradient, a velocity that relative to the boundary does
\* not point into it; that is the boundary's own where the distance is <= 0
\* or the boundary is sticky; and whose tangential part has lost at most
\* mu * pressure and has not turned round.  Beyond distance 1 the velocity
\* is untouched.
C9_BoundaryVelocity ==
    [][(pc = "accumulate_force" /\ pc' = "resample") =>
        \A c \in Cells(res) :
            Bounced(grid_velocity[c], grid_velocity'[c],
                    LSSample(levelset, NodePos(c), current_t),
                    LSGradient(levelset, NodePos(c), current_t),
                    LSTemporal(levelset, NodePos(c), current_t),
                    levelset.friction)]_vars

\* The boundary conditions have run on a cell in the band that was moving
\* into a boundary with friction: pushed out, slowed along the boundary, and
\* still sliding.
C9_Witness ==
    /\ pc = "resample" /\ levelset.friction > 0 /\ levelset.td # 0
    /\ \E c \in Cells(res) :
        LET phi == LSSample(levelset, NodePos(c), current_t)
            n == LSGradient(levelset, NodePos(c), current_t)
            out == VSub(grid_velocity[c],
                        VScale(LSTemporal(levelset, NodePos(c), current_t), n))
        IN  /\ phi > 0 /\ phi <= PS
            /\ Dot(out, n) = 0
            /\ Tangential(out, n) # Zero3
            /\ Dot(Tangential(out, n), Tangential(out, n)) < 240 * 240

====
